---- MODULE Spec2Model ----
(***************************************************************************)
(* SignalForge: the option candidate screener (tools/analyze_options_data) *)
(* over the schemas of tools/schemas.py.                                   *)
(*                                                                         *)
(* Numbers.  Python floats are modelled as exact fixed-point integers:     *)
(*   prices (strike, underlying_price, last)  in 1/PriceScale dollars,     *)
(*   money  (credit, max_loss)                in 1/MoneyScale dollars,     *)
(*   pop_itm                                  in 1/PopScale,               *)
(*   credit_to_max_loss after round(.,3)      in 1/RatioScale.             *)
(* The unrounded ratio credit / max_loss is kept as a fraction <<n, d>>    *)
(* with d > 0.  Binary rounding error of float arithmetic and NaN/inf      *)
(* inputs are outside the model.                                           *)
(*                                                                         *)
(* Python's None is the empty tuple, a present value v is <<v>>.           *)
(***************************************************************************)
EXTENDS Integers, Sequences, FiniteSets, TLC

VARIABLES
    pc,               \* "ready" before the call, "done" after it
    ticker,           \* argument ticker of analyze_options_data
    options_payload,  \* argument options_payload of analyze_options_data
    cands,            \* the local list cands as the loop built it (before line 35 sorts it)
    locals,           \* locals[i]: max_loss, credit and ratio when cands[i] was appended
    result,           \* None, or <<the dict the call returned>>
    raised,           \* TRUE when the call ended by an exception reaching the caller
    args,             \* the estimator's arguments S, K, sigma, T
    ret,              \* what each estimator function gave on args, "pending" before its call
    gpc,              \* position in get_options_data: "start", "loop", "chain", "done", "raised"
    world,            \* what yfinance answers: the last price and, per expiry, its chain
    expiries,         \* argument expiries of get_options_data
    idx,              \* number of expiries of all_exp[: max(expiries, 1)] the loop has left behind
    chain,            \* None, or <<the chain tk.option_chain(expiry) gave for expiry idx + 1>>
    out,              \* the local list out
    opt_raw,          \* None, or <<the dict get_options_data returned>>
    hpc,              \* position in fetch_json: "loop", "sleep", "returned", "raised"
    retries,          \* argument retries of fetch_json
    attempt,          \* the loop variable attempt
    server,           \* server[i]: what the i-th requests.get of the run meets
    sent,             \* number of requests.get calls made
    last_err,         \* the local last_err: None, or <<the error kept>>
    slept,            \* total time.sleep so far, in half seconds
    json_out,         \* None, or <<the value fetch_json returned>>
    err_out,          \* None, or <<the error fetch_json raised>>
    spc,              \* position in summarize_insights: "start", "replied", "returned", "raised"
    reply,            \* None, or <<resp.choices[0].message.content>>, as tokens
    final,            \* None, or <<the dict summarize_insights returned>>
    trace             \* the calls made so far, in order: fetches, estimator calls, the screener

screener == <<pc, ticker, options_payload, cands, locals, result, raised>>
estimator == <<args, ret>>
fetcher == <<gpc, world, expiries, idx, chain, out, opt_raw, trace>>
http == <<hpc, retries, attempt, server, sent, last_err, slept, json_out, err_out>>
llm == <<spc, reply, final>>
vars == <<screener, estimator, fetcher, http, llm>>

None == <<>>
Some(v) == <<v>>
Val(o) == o[1]

Min(a, b) == IF a <= b THEN a ELSE b
Max(a, b) == IF a >= b THEN a ELSE b

(***************************************************************************)
(* Units and policy constants                                              *)
(***************************************************************************)
PriceScale == 100000
MoneyScale == 1000
PopScale == 10000
RatioScale == 1000
\* round(x, 2) keeps cents: MoneyScale \div 100 money units
CentUnits == 10

ContractMultiplier == 100
\* 0.5 dollars in price units
DistanceFloor == 50000
\* 0.65 in pop units
PopThreshold == 6500
\* 0.33 as RatioNum / RatioDen
RatioNum == 33
RatioDen == 100
\* 500 dollars in money units
MaxLossCap == 500000
TopN == 10

\* x * 100 for a price x, as money
Times100(x) == (x * ContractMultiplier) \div (PriceScale \div MoneyScale)

\* nearest integer to n / d (d > 0), ties to the even neighbour
RoundDiv(n, d) ==
    LET q == n \div d
        r == n % d
    IN  IF 2 * r < d THEN q
        ELSE IF 2 * r > d THEN q + 1
        ELSE IF q % 2 = 0 THEN q ELSE q + 1

\* round(x, 2) of a money value
Round2(x) == RoundDiv(x, CentUnits) * CentUnits

\* round(ratio, 3) of a fraction <<n, d>>, in 1/RatioScale
Round3(f) == RoundDiv(f[1] * RatioScale, f[2])

(***************************************************************************)
(* Schemas (tools/schemas.py)                                              *)
(***************************************************************************)
\* OptionContract: strike is a required float; the Optional fields accept None
OptionContractOk(c) == c.strike # None

OptionContract(c) ==
    [expiry |-> c.expiry, type |-> c.type, strike |-> Val(c.strike),
     last |-> c.last, volume |-> c.volume, openInterest |-> c.openInterest,
     iv |-> c.iv, delta |-> c.delta, pop_itm |-> c.pop_itm]

\* OptionsDataOut(**options_payload): ticker is a required str, every item of
\* options must validate as an OptionContract
\* mutant: items that fail validation are dropped instead of failing the payload
OptionsDataOutSkipping(p) ==
    IF p.ticker # None
    THEN [exc |-> FALSE,
          value |-> Some([ticker |-> Val(p.ticker),
                          underlying_price |-> p.underlying_price,
                          options |-> LET ok == SelectSeq(p.options, OptionContractOk)
                                      IN  [i \in 1..Len(ok) |-> OptionContract(ok[i])],
                          error |-> p.error])]
    ELSE [exc |-> TRUE, value |-> None]

\* exc is the ValidationError; value is the validated object
OptionsDataOut(p) ==
    IF /\ p.ticker # None
       /\ \A i \in 1..Len(p.options) : OptionContractOk(p.options[i])
    THEN [exc |-> FALSE,
          value |-> Some([ticker |-> Val(p.ticker),
                          underlying_price |-> p.underlying_price,
                          options |-> [i \in 1..Len(p.options) |->
                                          OptionContract(p.options[i])],
                          error |-> p.error])]
    ELSE [exc |-> TRUE, value |-> None]

OptionCandidate(type, strike, pop_itm, credit, max_loss, credit_to_max_loss, meets_rules, volume, openInterest, expiry) ==
    [type |-> type, strike |-> strike, pop_itm |-> pop_itm, credit |-> credit,
     max_loss |-> max_loss, credit_to_max_loss |-> credit_to_max_loss,
     meets_rules |-> meets_rules, volume |-> volume,
     openInterest |-> openInterest, expiry |-> expiry]

\* OptionsScreenOut(ticker=..., candidates=..., error=...).dict(): ticker is a
\* required str, so the constructor raises a ValidationError on any other ticker
OptionsScreenOut(t, candidates, error) ==
    IF t = None
    THEN [exc |-> TRUE, value |-> None]
    ELSE [exc |-> FALSE,
          value |-> Some([ticker |-> Val(t), candidates |-> candidates,
                          error |-> error])]

(***************************************************************************)
(* analyze_options_data (tools/analyze_options_data.py)                    *)
(***************************************************************************)
\* last = oc.last or 0.0
LastOrZero(oc) == IF oc.last = None \/ oc.last = Some(0) THEN 0 ELSE Val(oc.last)

\* mutant: the 0.5 floor of the call distance is lost
MaxLossNoFloor(oc, under) ==
    IF oc.type = "call"
    THEN Times100(oc.strike - under)
    ELSE Times100(oc.strike)

\* mutant: the put branch is lost, every type is priced by its distance
MaxLossAlwaysDistance(oc, under) ==
    Times100(Max(Max(oc.strike - under, DistanceFloor), DistanceFloor))

\* lines 18-22
MaxLoss(oc, under) ==
    IF oc.type = "call"
    THEN LET distance == Max(oc.strike - under, DistanceFloor)
         IN  Times100(Max(distance, DistanceFloor))
    ELSE Times100(oc.strike)

\* line 24
Credit(oc) == Times100(LastOrZero(oc))

\* mutant: the division is not guarded
RatioUnguarded(credit, max_loss) ==
    IF max_loss = 0
    THEN [exc |-> TRUE, frac |-> <<0, 1>>]
    ELSE IF max_loss > 0
         THEN [exc |-> FALSE, frac |-> <<credit, max_loss>>]
         ELSE [exc |-> FALSE, frac |-> <<0 - credit, 0 - max_loss>>]

\* line 25: ratio = (credit / max_loss) if max_loss > 0 else 0
\* exc is a ZeroDivisionError raised by the division
Ratio(credit, max_loss) ==
    IF max_loss > 0
    THEN [exc |-> FALSE, frac |-> <<credit, max_loss>>]
    ELSE [exc |-> FALSE, frac |-> <<0, 1>>]

\* mutant: the pop_itm bound is exclusive
MeetsStrict(pop, frac, max_loss) ==
    /\ pop > PopThreshold
    /\ frac[1] * RatioDen >= RatioNum * frac[2]
    /\ max_loss <= MaxLossCap

\* mutant: the max_loss cap is lost
MeetsNoCap(pop, frac, max_loss) ==
    /\ pop >= PopThreshold
    /\ frac[1] * RatioDen >= RatioNum * frac[2]

\* line 26
Meets(pop, frac, max_loss) ==
    /\ pop >= PopThreshold
    /\ frac[1] * RatioDen >= RatioNum * frac[2]
    /\ max_loss <= MaxLossCap

\* lines 18-33 for one contract with a pop_itm
ScreenContract(oc, under) ==
    LET pop      == Val(oc.pop_itm)
        max_loss == MaxLoss(oc, under)
        credit   == Credit(oc)
        ratio    == Ratio(credit, max_loss)
    IN  [exc  |-> ratio.exc,
         locals |-> [max_loss |-> max_loss, credit |-> credit, ratio |-> ratio.frac],
         cand |-> OptionCandidate(oc.type, oc.strike, oc.pop_itm, Round2(credit),
                                  Round2(max_loss), Round3(ratio.frac),
                                  Meets(pop, ratio.frac, max_loss),
                                  oc.volume, oc.openInterest, oc.expiry)]

\* mutant: a null pop_itm is read as 0 instead of skipping the contract
RECURSIVE ScreenLoopNoSkip(_, _, _)
ScreenLoopNoSkip(options, under, acc) ==
    IF options = <<>> THEN acc
    ELSE LET oc == Head(options)
             s  == ScreenContract(IF oc.pop_itm = None
                                  THEN [oc EXCEPT !.pop_itm = Some(0)] ELSE oc,
                                  under)
         IN  IF s.exc
             THEN [acc EXCEPT !.exc = TRUE]
             ELSE ScreenLoopNoSkip(Tail(options), under,
                                   [acc EXCEPT !.cands = Append(@, s.cand),
                                               !.locals = Append(@, s.locals)])

\* mutant: a contract without a last price is skipped too
RECURSIVE ScreenLoopSkipNoLast(_, _, _)
ScreenLoopSkipNoLast(options, under, acc) ==
    IF options = <<>> THEN acc
    ELSE LET oc == Head(options)
         IN  IF oc.pop_itm = None \/ LastOrZero(oc) = 0
             THEN ScreenLoopSkipNoLast(Tail(options), under, acc)
             ELSE LET s == ScreenContract(oc, under)
                  IN  IF s.exc
                      THEN [acc EXCEPT !.exc = TRUE]
                      ELSE ScreenLoopSkipNoLast(Tail(options), under,
                                      [acc EXCEPT !.cands = Append(@, s.cand),
                                                  !.locals = Append(@, s.locals)])

\* lines 11-33: the loop over od.options; an exception ends it
RECURSIVE ScreenLoop(_, _, _)
ScreenLoop(options, under, acc) ==
    IF options = <<>> THEN acc
    ELSE LET oc == Head(options)
         IN  IF oc.pop_itm = None
             THEN ScreenLoop(Tail(options), under, acc)
             ELSE LET s == ScreenContract(oc, under)
                  IN  IF s.exc
                      THEN [acc EXCEPT !.exc = TRUE]
                      ELSE ScreenLoop(Tail(options), under,
                                      [acc EXCEPT !.cands = Append(@, s.cand),
                                                  !.locals = Append(@, s.locals)])

NoCands == [exc |-> FALSE, cands |-> <<>>, locals |-> <<>>]

\* mutant: the volume tie-break is lost
SortKeyNoVolume(x) ==
    <<IF x.meets_rules THEN 1 ELSE 0,
      IF x.pop_itm = None THEN 0 ELSE Val(x.pop_itm),
      0>>

\* line 35: the sort key (x.meets_rules, (x.pop_itm or 0), (x.volume or 0))
SortKey(x) ==
    <<IF x.meets_rules THEN 1 ELSE 0,
      IF x.pop_itm = None THEN 0 ELSE Val(x.pop_itm),
      IF x.volume = None THEN 0 ELSE Val(x.volume)>>

\* tuple comparison a > b
KeyGreater(a, b) ==
    \/ a[1] > b[1]
    \/ a[1] = b[1] /\ a[2] > b[2]
    \/ a[1] = b[1] /\ a[2] = b[2] /\ a[3] > b[3]

\* list.sort(key=..., reverse=True): descending and stable
RECURSIVE InsertDesc(_, _)
InsertDesc(x, s) ==
    IF s = <<>> THEN <<x>>
    ELSE IF KeyGreater(SortKey(x), SortKey(Head(s)))
         THEN <<x>> \o s
         ELSE <<Head(s)>> \o InsertDesc(x, Tail(s))

RECURSIVE SortFrom(_, _)
SortFrom(s, acc) ==
    IF s = <<>> THEN acc ELSE SortFrom(Tail(s), InsertDesc(Head(s), acc))

SortDesc(s) == SortFrom(s, <<>>)

\* mutant: the cut keeps the tail of the sorted list
TruncateTail(s) == SubSeq(s, Len(s) - Min(TopN, Len(s)) + 1, Len(s))

\* mutant: the list is not cut
TruncateNone(s) == s

\* cands[:10]
Truncate(s) == SubSeq(s, 1, Min(TopN, Len(s)))

\* mutant: the error result carries no message
NoUnderlyingNoError(t, od) == OptionsScreenOut(t, <<>>, None)

\* mutant: the error is reported with the contracts screened all the same
NoUnderlyingPartial(t, od) ==
    OptionsScreenOut(t, Truncate(SortDesc(ScreenLoop(od.options, 0, NoCands).cands)),
                     Some("No underlying price"))

\* lines 8-9
NoUnderlying(t, od) == OptionsScreenOut(t, <<>>, Some("No underlying price"))

\* lines 6-36, the body of the try: exc with the message of the exception, or
\* the returned dict; cands and locals are the loop's at that point
TryBody(t, payload) ==
    LET v == OptionsDataOut(payload)
    IN  IF v.exc
        THEN [exc |-> TRUE, msg |-> "validation error for OptionsDataOut",
              value |-> None, cands |-> <<>>, locals |-> <<>>]
        ELSE LET od    == Val(v.value)
                 under == od.underlying_price
             IN  IF under = None
                 THEN LET o == NoUnderlying(t, od)
                      IN  [exc |-> o.exc,
                           msg |-> "validation error for OptionsScreenOut",
                           value |-> o.value, cands |-> <<>>, locals |-> <<>>]
                 ELSE LET l == ScreenLoop(od.options, Val(under), NoCands)
                          o == OptionsScreenOut(t, Truncate(SortDesc(l.cands)), None)
                      IN  IF l.exc
                          THEN [exc |-> TRUE, msg |-> "float division by zero",
                                value |-> None, cands |-> l.cands,
                                locals |-> l.locals]
                          ELSE [exc |-> o.exc,
                                msg |-> "validation error for OptionsScreenOut",
                                value |-> o.value, cands |-> l.cands,
                                locals |-> l.locals]

\* lines 4-39: the call; raised when the except clause itself raises
analyze_options_data(t, payload) ==
    LET b == TryBody(t, payload)
    IN  IF ~b.exc
        THEN [raised |-> FALSE, result |-> b.value, cands |-> b.cands,
              locals |-> b.locals]
        ELSE LET h == OptionsScreenOut(t, <<>>, Some(b.msg))
             IN  [raised |-> h.exc, result |-> h.value, cands |-> b.cands,
                  locals |-> b.locals]

(***************************************************************************)
(* The estimator (tools/get_options_data.py, lines 20-64)                  *)
(*                                                                         *)
(* sigma is in 1/IvScale, T in 1/(DaysScale * DaysPerYear) years, d1 and   *)
(* d2 in 1/DScale, delta and pop_itm in 1/PopScale = 1/(2 * ErfScale).     *)
(* A float is [kind, v]: a number v, "nan", or "inf" with its sign v.      *)
(* math.erf and np.log are tables of their values; the 1e-12 added to the  *)
(* denominator of d1 is below the resolution.                              *)
(***************************************************************************)
IvScale == 100
DaysScale == 100
DaysPerYear == 365
DScale == 100
ErfScale == 5000
\* sqrt(T) is in 1/SqrtScale, so sigma * sqrt(T) in 1/(IvScale * SqrtScale)
SqrtScale == 10000

Num(v) == [kind |-> "num", v |-> v]
NaN == [kind |-> "nan", v |-> 0]
Inf(sign) == [kind |-> "inf", v |-> sign]

\* the largest r with r * r <= n
RECURSIVE IsqrtBetween(_, _, _)
IsqrtBetween(n, lo, hi) ==
    IF lo >= hi THEN lo
    ELSE LET mid == (lo + hi + 1) \div 2
         IN  IF mid * mid <= n THEN IsqrtBetween(n, mid, hi)
             ELSE IsqrtBetween(n, lo, mid - 1)

Isqrt(n) == IsqrtBetween(n, 0, Min(n, 46340))

\* sqrt(T) for T >= 0
SqrtT(T) == Isqrt(((T * 100000) \div DaysPerYear) * 10)

\* 5000 * erf(x / sqrt(2)) at x = 0, 0.25, ..., 4.0
ErfKnots ==
    <<0, 987, 1915, 2734, 3413, 3944, 4332, 4599, 4772, 4878, 4938, 4970, 4987,
      4994, 4998, 4999, 5000>>
KnotStep == 25

\* ErfScale * erf(x / sqrt(2)) for x >= 0 in 1/DScale, between the knots by
\* linear interpolation
ErfPos(x) ==
    LET k == x \div KnotStep
    IN  IF k + 1 >= Len(ErfKnots) THEN ErfKnots[Len(ErfKnots)]
        ELSE ErfKnots[k + 1]
               + RoundDiv((ErfKnots[k + 2] - ErfKnots[k + 1]) * (x % KnotStep), KnotStep)

\* math.erf is odd
ErfOverRoot2(x) == IF x < 0 THEN 0 - ErfPos(0 - x) ELSE ErfPos(x)

\* lines 20-21: 0.5 * (1.0 + erf(x / sqrt(2.0)))
_phi(x) ==
    IF x.kind = "nan" THEN NaN
    ELSE IF x.kind = "inf" THEN Num(ErfScale + x.v * ErfScale)
    ELSE Num(ErfScale + ErfOverRoot2(x.v))

\* 1000000 * ln(p) for the prices p > 0 of the inputs
LnMicro(p) ==
    CASE p = 100 * PriceScale -> 4605170
      [] p = 105 * PriceScale -> 4653960
      [] p = 95 * PriceScale  -> 4553877
      [] p = 5 * PriceScale   -> 1609438
      [] p = 4 * PriceScale   -> 1386294
      [] p = 1 * PriceScale   -> 0

Abs(x) == IF x < 0 THEN 0 - x ELSE x

\* np.log(S / K), in 1/1000000; exc is the ZeroDivisionError of S / K
LogRatio(S, K) ==
    IF K = 0 THEN [exc |-> TRUE, value |-> NaN]
    ELSE IF S = 0 THEN [exc |-> FALSE, value |-> Inf(-1)]
    ELSE IF (S < 0) # (K < 0) THEN [exc |-> FALSE, value |-> NaN]
    ELSE [exc |-> FALSE, value |-> Num(LnMicro(Abs(S)) - LnMicro(Abs(K)))]

\* lines 24-28; exc is an exception of sqrt(T) or of S / K
_bs_d1(S, K, sigma, T) ==
    IF T < 0 THEN [exc |-> TRUE, value |-> NaN]
    ELSE LET denom == sigma * SqrtT(T)
             log   == LogRatio(S, K)
             half  == RoundDiv(sigma * sigma * T, 2 * DaysPerYear)
         IN  IF denom <= 0 THEN [exc |-> FALSE, value |-> NaN]
             ELSE IF log.exc THEN [exc |-> TRUE, value |-> NaN]
             ELSE IF log.value.kind # "num" THEN [exc |-> FALSE, value |-> log.value]
             ELSE [exc |-> FALSE,
                   value |-> Num(RoundDiv((log.value.v + half) * DScale, denom))]

\* sigma * sqrt(T) in 1/DScale
SigmaSqrtT(sigma, T) == RoundDiv(sigma * SqrtT(T), (IvScale * SqrtScale) \div DScale)

\* x - y and -x of floats, y a number
Minus(x, y) == IF x.kind = "num" THEN Num(x.v - y) ELSE x
Negated(x) == IF x.kind = "nan" THEN x ELSE [x EXCEPT !.v = 0 - @]

\* what a call gives: a float ("num", "nan"), None ("none") or an exception
ReturnsNone == [kind |-> "none", v |-> 0]
Raises == [kind |-> "raise", v |-> 0]

\* sigma is None or sigma <= 0 or T <= 0
NoEstimate(sigma, T) == sigma = None \/ Val(sigma) <= 0 \/ T <= 0

\* lines 31-37
_delta_call(S, K, sigma, T) ==
    IF NoEstimate(sigma, T) THEN ReturnsNone
    ELSE LET d1 == _bs_d1(S, K, Val(sigma), T)
         IN  IF d1.exc THEN Raises
             ELSE IF d1.value.kind = "nan" THEN ReturnsNone
             ELSE _phi(d1.value)

\* mutant: delta of a put taken at d2
_delta_put_at_d2(S, K, sigma, T) ==
    IF NoEstimate(sigma, T) THEN ReturnsNone
    ELSE LET d1 == _bs_d1(S, K, Val(sigma), T)
             d2 == Minus(d1.value, SigmaSqrtT(Val(sigma), T))
         IN  IF d1.exc THEN Raises
             ELSE IF d1.value.kind = "nan" THEN ReturnsNone
             ELSE Minus(_phi(d2), 2 * ErfScale)

\* lines 40-46
_delta_put(S, K, sigma, T) ==
    IF NoEstimate(sigma, T) THEN ReturnsNone
    ELSE LET d1 == _bs_d1(S, K, Val(sigma), T)
         IN  IF d1.exc THEN Raises
             ELSE IF d1.value.kind = "nan" THEN ReturnsNone
             ELSE Minus(_phi(d1.value), 2 * ErfScale)

\* mutant: the isnan test is lost
_pop_itm_call_unchecked(S, K, sigma, T) ==
    IF NoEstimate(sigma, T) THEN ReturnsNone
    ELSE LET d1 == _bs_d1(S, K, Val(sigma), T)
             d2 == Minus(d1.value, SigmaSqrtT(Val(sigma), T))
         IN  IF d1.exc THEN Raises
             ELSE _phi(d2)

\* lines 49-55
_pop_itm_call(S, K, sigma, T) ==
    IF NoEstimate(sigma, T) THEN ReturnsNone
    ELSE LET d1 == _bs_d1(S, K, Val(sigma), T)
             d2 == Minus(d1.value, SigmaSqrtT(Val(sigma), T))
         IN  IF d1.exc THEN Raises
             ELSE IF d2.kind = "nan" THEN ReturnsNone
             ELSE _phi(d2)

\* mutant: the put probability taken at -d1
_pop_itm_put_at_d1(S, K, sigma, T) ==
    IF NoEstimate(sigma, T) THEN ReturnsNone
    ELSE LET d1 == _bs_d1(S, K, Val(sigma), T)
         IN  IF d1.exc THEN Raises
             ELSE IF d1.value.kind = "nan" THEN ReturnsNone
             ELSE _phi(Negated(d1.value))

\* lines 58-64
_pop_itm_put(S, K, sigma, T) ==
    IF NoEstimate(sigma, T) THEN ReturnsNone
    ELSE LET d1 == _bs_d1(S, K, Val(sigma), T)
             d2 == Minus(d1.value, SigmaSqrtT(Val(sigma), T))
         IN  IF d1.exc THEN Raises
             ELSE IF d2.kind = "nan" THEN ReturnsNone
             ELSE _phi(Negated(d2))

(***************************************************************************)
(* Inputs                                                                  *)
(***************************************************************************)
MaxHead == 2
MaxLead == 1
MaxFill == 18

\* dollars + frac / PriceScale, as a price
Price(dollars, frac) == dollars * PriceScale + frac
\* p / PopScale
Pop(p) == Some(p)

\* the fields the screener does not read (expiry, openInterest, iv, delta)
\* are the same in every contract; iv is in 1/IvScale
Contract(type, strike, last, volume, pop_itm) ==
    [expiry |-> "2026-01-16", type |-> type, strike |-> strike, last |-> last,
     volume |-> volume, openInterest |-> Some(100), iv |-> Some(30),
     delta |-> None, pop_itm |-> pop_itm]

Underlying == Price(100, 0)
LowUnderlying == Price(4, 0)

\* the contracts the head of a payload is drawn from
ContractPool ==
    { Contract("call", Some(Price(95, 0)),     Some(Price(6, 0)),     Some(10), Pop(7000)),
      Contract("put",  Some(Price(50, 0)),     Some(Price(0, 10000)), Some(5),  Pop(8000)),
      Contract("put",  Some(Price(5, 0)),      Some(Price(1, 65000)), None,     Pop(6500)),
      Contract("put",  Some(Price(5, 4)),      Some(Price(1, 66000)), Some(10), Pop(7000)),
      Contract("put",  Some(Price(5, 0)),      Some(Price(1, 64800)), Some(3),  Pop(8000)),
      Contract("call", Some(Price(105, 0)),    Some(Price(2, 0)),     Some(7),  Pop(6499)),
      Contract("put",  Some(0),                Some(Price(1, 0)),     Some(1),  Pop(7000)),
      Contract("put",  Some(0 - Price(1, 0)),  Some(Price(1, 0)),     Some(2),  Pop(7000)),
      Contract("call", Some(Price(100, 50000)), None,                 Some(4),  Pop(9000)),
      Contract("call", Some(Price(110, 0)),    Some(Price(3, 40000)), Some(0),  Pop(6500)),
      Contract("call", Some(Price(103, 0)),    Some(Price(1, 0)),     Some(4),  None),
      Contract("put",  None,                   Some(Price(1, 0)),     Some(6),  Pop(7000)),
      Contract("put",  Some(Price(4, 0)),      Some(0),               Some(5),  Pop(9000)) }

\* the contracts that fill a payload up, taken in rotation
Fillers ==
    << Contract("put",  Some(Price(4, 0)),   Some(Price(2, 0)),     Some(2), Pop(7500)),
       Contract("put",  Some(Price(3, 0)),   Some(Price(1, 50000)), None,    Pop(8500)),
       Contract("call", Some(Price(102, 0)), Some(Price(0, 50000)), None,    Pop(6000)),
       Contract("call", Some(Price(104, 0)), Some(Price(2, 0)),     Some(8), Pop(7500)),
       Contract("call", Some(Price(101, 0)), Some(Price(1, 0)),     Some(9), None) >>

Fill(start, k) == [j \in 1..k |-> Fillers[((start + j - 2) % Len(Fillers)) + 1]]

RECURSIVE SeqsUpTo(_, _)
SeqsUpTo(S, n) ==
    IF n = 0 THEN {<<>>}
    ELSE LET shorter == SeqsUpTo(S, n - 1)
         IN  shorter \cup {Append(s, x) : s \in {q \in shorter : Len(q) = n - 1}, x \in S}

Heads == SeqsUpTo(ContractPool, MaxHead)

Payload(t, under, options) ==
    [ticker |-> t, underlying_price |-> under, options |-> options, error |-> None]

\* a well-formed ticker and payload with the long option lists (a lead drawn
\* from the pool, then the fillers in rotation); every ticker, payload header
\* and underlying price with the short lists
Inputs ==
    {<<Some("AAPL"), Payload(Some("AAPL"), Some(Underlying), h \o Fill(s, k))>> :
        h \in SeqsUpTo(ContractPool, MaxLead), s \in 1..Len(Fillers), k \in 0..MaxFill}
    \cup
    {<<t, Payload(pt, u, h)>> :
        t \in {Some("AAPL"), None}, pt \in {Some("AAPL"), None},
        u \in {Some(Underlying), Some(LowUnderlying), None}, h \in Heads}

(***************************************************************************)
(* The state machine: one call of analyze_options_data on a drawn input    *)
(***************************************************************************)
Pending == [kind |-> "pending", v |-> 0]
NotCalled ==
    [delta_call |-> Pending, delta_put |-> Pending,
     pop_itm_call |-> Pending, pop_itm_put |-> Pending]

\* no estimator call in this run
EstimatorIdle ==
    /\ args = [S |-> 0, K |-> 0, sigma |-> None, T |-> 0]
    /\ ret = NotCalled

\* no get_options_data call in this run
FetcherIdle ==
    /\ gpc = "idle"
    /\ world = [last_price |-> None, options |-> <<>>]
    /\ expiries = 1
    /\ idx = 0
    /\ chain = None
    /\ out = <<>>
    /\ opt_raw = None
    /\ trace = <<>>

\* no fetch_json call in this run
HttpIdle ==
    /\ hpc = "idle"
    /\ retries = 2
    /\ attempt = 0
    /\ server = <<>>
    /\ sent = 0
    /\ last_err = None
    /\ slept = 0
    /\ json_out = None
    /\ err_out = None

\* no summarize_insights call in this run
LlmIdle ==
    /\ spc = "idle"
    /\ reply = None
    /\ final = None

Init ==
    /\ pc = "ready"
    /\ \E in \in Inputs : ticker = in[1] /\ options_payload = in[2]
    /\ cands = <<>>
    /\ locals = <<>>
    /\ result = None
    /\ raised = FALSE
    /\ EstimatorIdle
    /\ FetcherIdle
    /\ HttpIdle
    /\ LlmIdle

AnalyzeOptionsData ==
    /\ pc = "ready"
    /\ LET r == analyze_options_data(ticker, options_payload)
       IN  /\ cands' = r.cands
           /\ locals' = r.locals
           /\ result' = r.result
           /\ raised' = r.raised
    /\ pc' = "done"
    /\ UNCHANGED <<ticker, options_payload, estimator, fetcher, http, llm>>

Next == AnalyzeOptionsData

Spec == Init /\ [][Next]_vars

(***************************************************************************)
(* The estimator alone: the four functions called, in any order, on one    *)
(* drawn (S, K, sigma, T)                                                  *)
(***************************************************************************)
SpotValues == {100 * PriceScale, 4 * PriceScale, 0, 0 - PriceScale}
StrikeValues ==
    {95 * PriceScale, 100 * PriceScale, 105 * PriceScale, 5 * PriceScale, 0,
     0 - PriceScale}
SigmaValues == {None, Some(0 - 10), Some(0), Some(1), Some(30), Some(50), Some(499)}
TValues == {0 - 100, 0, 1, 100, 700, 3000}

\* no screener call in this run
ScreenerIdle ==
    /\ pc = "idle"
    /\ ticker = None
    /\ options_payload = Payload(None, None, <<>>)
    /\ cands = <<>>
    /\ locals = <<>>
    /\ result = None
    /\ raised = FALSE

InitEstimator ==
    /\ ScreenerIdle
    /\ \E S \in SpotValues, K \in StrikeValues, sigma \in SigmaValues, T \in TValues :
          args = [S |-> S, K |-> K, sigma |-> sigma, T |-> T]
    /\ ret = NotCalled
    /\ FetcherIdle
    /\ HttpIdle
    /\ LlmIdle

DeltaCall ==
    /\ ret.delta_call = Pending
    /\ ret' = [ret EXCEPT !.delta_call = _delta_call(args.S, args.K, args.sigma, args.T)]
    /\ UNCHANGED <<args, screener, fetcher, http, llm>>

DeltaPut ==
    /\ ret.delta_put = Pending
    /\ ret' = [ret EXCEPT !.delta_put = _delta_put(args.S, args.K, args.sigma, args.T)]
    /\ UNCHANGED <<args, screener, fetcher, http, llm>>

PopItmCall ==
    /\ ret.pop_itm_call = Pending
    /\ ret' = [ret EXCEPT !.pop_itm_call =
                              _pop_itm_call(args.S, args.K, args.sigma, args.T)]
    /\ UNCHANGED <<args, screener, fetcher, http, llm>>

PopItmPut ==
    /\ ret.pop_itm_put = Pending
    /\ ret' = [ret EXCEPT !.pop_itm_put =
                              _pop_itm_put(args.S, args.K, args.sigma, args.T)]
    /\ UNCHANGED <<args, screener, fetcher, http, llm>>

NextEstimator == DeltaCall \/ DeltaPut \/ PopItmCall \/ PopItmPut

SpecEstimator == InitEstimator /\ [][NextEstimator]_vars

(***************************************************************************)
(* get_options_data (tools/get_options_data.py)                            *)
(* A chain row holds what pd.to_numeric left: None is NaN or a missing     *)
(* column.  days_to_exp is in 1/DaysScale days, so T = days_to_exp / 365   *)
(* is the same number in 1/(DaysScale * DaysPerYear) years.                *)
(***************************************************************************)
HeadRows == 15
\* 5.0 in 1/IvScale
IvCap == 500

Row(strike, iv, lastPrice, volume, openInterest) ==
    [strike |-> strike, iv |-> iv, lastPrice |-> lastPrice, volume |-> volume,
     openInterest |-> openInterest]

\* one entry of tk.options and what tk.option_chain gives for it; days is
\* (exp_ts - now_utc).total_seconds() / 86400.0, NaN when the expiry parses to NaT
Expiry(expiry, days, fetch_ok, calls, puts) ==
    [expiry |-> expiry, days |-> days, fetch_ok |-> fetch_ok, calls |-> calls,
     puts |-> puts]

\* one call made by the run
Event(ev, i, T, sigma) == [ev |-> ev, expiry |-> i, T |-> T, sigma |-> sigma]

\* mutant: max(expiries, 1) became max(expiries, 2)
ExpiryLimitTwo(n) == Max(n, 2)

\* line 175: all_exp[: max(expiries, 1)]
ExpiryLimit(n) == Max(n, 1)

\* sort_values("openInterest", ascending=False): NaN goes last
OiBefore(a, b) ==
    /\ a.openInterest # None
    /\ b.openInterest = None \/ Val(a.openInterest) > Val(b.openInterest)

RECURSIVE InsertByOi(_, _)
InsertByOi(r, s) ==
    IF s = <<>> THEN <<r>>
    ELSE IF OiBefore(r, Head(s))
         THEN <<r>> \o s
         ELSE <<Head(s)>> \o InsertByOi(r, Tail(s))

RECURSIVE SortByOiFrom(_, _)
SortByOiFrom(s, acc) ==
    IF s = <<>> THEN acc ELSE SortByOiFrom(Tail(s), InsertByOi(Head(s), acc))

\* lines 190-193: the 15 rows of largest open interest
TopByOi(df) ==
    LET sorted == SortByOiFrom(df, <<>>)
    IN  SubSeq(sorted, 1, Min(HeadRows, Len(sorted)))

\* mutant: the floor of one day is lost
TimeToExpiryNoFloor(days) == IF days.kind # "num" THEN DaysScale ELSE days.v

\* lines 203-207: a days_to_exp that is not finite becomes 1.0, then
\* max(days_to_exp, 1.0), then / 365.0
TimeToExpiry(days) ==
    IF days.kind # "num" THEN DaysScale ELSE Max(days.v, DaysScale)

\* line 211: iv = float(r.get("iv")) if pd.notna(r.get("iv")) and r.get("iv") > 0 else None
IvOfRow(r) == IF r.iv # None /\ Val(r.iv) > 0 THEN r.iv ELSE None

\* mutant: the upper limit of iv is lost
IvUsableNoCap(iv) == iv # None /\ Val(iv) # 0 /\ Val(iv) > 0

\* line 218: if iv and iv > 0 and iv < 5.0
IvUsable(iv) == iv # None /\ Val(iv) # 0 /\ Val(iv) > 0 /\ Val(iv) < IvCap

\* what the estimator gave, as a field of OptionContract (the estimator gives
\* None or a number, and raises on a strike of 0)
AsField(x) == IF x.kind = "num" THEN Some(x.v) ELSE None

\* lines 209-242 for one row; acc holds exc (None, or <<str(e)>> of the
\* exception that left the loop), out and trace
EstimateRow(r, kind, x, i, S, T, acc) ==
    LET iv == IvOfRow(r)
        K == Val(r.strike)
        deltaName == IF kind = "call" THEN "delta_call" ELSE "delta_put"
        popName == IF kind = "call" THEN "pop_itm_call" ELSE "pop_itm_put"
        delta == IF ~IvUsable(iv) THEN ReturnsNone
                 ELSE IF kind = "call" THEN _delta_call(S, K, iv, T)
                 ELSE _delta_put(S, K, iv, T)
        pop == IF ~IvUsable(iv) THEN ReturnsNone
               ELSE IF kind = "call" THEN _pop_itm_call(S, K, iv, T)
               ELSE _pop_itm_put(S, K, iv, T)
        called == IF ~IvUsable(iv) THEN <<>>
                  ELSE IF delta.kind = "raise" THEN <<Event(deltaName, i, T, Val(iv))>>
                  ELSE <<Event(deltaName, i, T, Val(iv)), Event(popName, i, T, Val(iv))>>
        contract == OptionContract(
                        [expiry |-> x.expiry, type |-> kind, strike |-> r.strike,
                         last |-> r.lastPrice, volume |-> r.volume,
                         openInterest |-> r.openInterest, iv |-> iv,
                         delta |-> AsField(delta), pop_itm |-> AsField(pop)])
    IN  IF delta.kind = "raise" \/ pop.kind = "raise"
        THEN [acc EXCEPT !.exc = Some("float division by zero"),
                         !.trace = @ \o called]
        ELSE [acc EXCEPT !.out = Append(@, contract), !.trace = @ \o called]

\* line 209: for _, r in df.iterrows()
RECURSIVE RowsLoop(_, _, _, _, _, _, _)
RowsLoop(rows, kind, x, i, S, T, acc) ==
    IF rows = <<>> \/ acc.exc # None THEN acc
    ELSE IF Head(rows).strike = None
         THEN RowsLoop(Tail(rows), kind, x, i, S, T, acc)
         ELSE RowsLoop(Tail(rows), kind, x, i, S, T,
                       EstimateRow(Head(rows), kind, x, i, S, T, acc))

\* lines 180-242 for one side of the chain
ProcessSide(kind, df, x, i, S, acc) ==
    IF df = <<>> \/ acc.exc # None THEN acc
    ELSE RowsLoop(TopByOi(df), kind, x, i, S, TimeToExpiry(x.days), acc)

\* line 180: for kind, df in [("call", chain.calls), ("put", chain.puts)]
ProcessBothSides(x, i, S, acc) ==
    ProcessSide("put", x.puts, x, i, S, ProcessSide("call", x.calls, x, i, S, acc))

\* OptionContract.model_dump()
DumpContract(oc) == [oc EXCEPT !.strike = Some(oc.strike)]

\* OptionsDataOut.model_dump()
model_dump(m) ==
    [ticker |-> Some(m.ticker), underlying_price |-> m.underlying_price,
     options |-> [j \in 1..Len(m.options) |-> DumpContract(m.options[j])],
     error |-> m.error]

\* OptionsDataOut(ticker=..., underlying_price=..., options=..., error=...).model_dump():
\* <<the dict>>, or None when the constructor raises its ValidationError; the
\* OptionContract objects are validated as their fields
Dumped(t, under, contracts, error) ==
    LET kwargs == [Payload(t, under, [j \in 1..Len(contracts) |-> DumpContract(contracts[j])])
                      EXCEPT !.error = error]
        m == OptionsDataOut(kwargs)
    IN  IF m.exc THEN None ELSE Some(model_dump(Val(m.value)))

\* mutant: the except clause returns what the try block had gathered
ErrorRecordPartial(t, last_price, contracts, msg) ==
    Dumped(t, last_price, contracts, Some(msg))

\* lines 168 and 246: OptionsDataOut(ticker=ticker, error=...).model_dump()
ErrorRecord(t, last_price, contracts, msg) == Dumped(t, None, <<>>, Some(msg))

\* where a return statement of the try block leaves get_options_data: d is
\* what it evaluates to, and when the constructor raised, lines 245-246 run,
\* whose own constructor may raise out of the function
ReturnOrRaise(d, t, last_price, contracts) ==
    IF d # None THEN [gpc |-> "done", opt_raw |-> d]
    ELSE LET h == ErrorRecord(t, last_price, contracts, "validation error for OptionsDataOut")
         IN  IF h # None THEN [gpc |-> "done", opt_raw |-> h]
             ELSE [gpc |-> "raised", opt_raw |-> None]

(***************************************************************************)
(* The pipeline: run_signal_pipeline's get_options_data(ticker) followed   *)
(* by analyze_options_data(ticker, opt_raw), get_options_data taken for    *)
(* every small expiries argument, step by step                             *)
(***************************************************************************)
MaxExpiries == 2
MaxChains == 2

\* 16 call rows of distinct open interest
ManyRows ==
    [j \in 1..(HeadRows + 1) |->
        Row(Some(Price(95 + 5 * (j % 3), 0)), Some(30), Some(Price(1, 0)), Some(j),
            Some(10 * j))]

\* the expiries tk.options is drawn from
ExpiryPool ==
    { Expiry("2026-01-16", Num(700), TRUE,
             << Row(Some(Price(100, 0)), Some(30), Some(Price(2, 0)), Some(10), Some(50)),
                Row(Some(Price(105, 0)), Some(600), Some(Price(1, 0)), None, Some(70)),
                Row(Some(Price(95, 0)), Some(500), Some(Price(6, 0)), Some(3), None) >>,
             << Row(Some(Price(95, 0)), Some(50), Some(Price(1, 0)), Some(4), Some(20)),
                Row(Some(Price(5, 0)), None, Some(Price(1, 65000)), Some(2), Some(30)) >>),
      Expiry("2025-10-17", Num(0 - 300), TRUE,
             << Row(Some(Price(100, 0)), Some(50), None, Some(1), Some(5)) >>,
             << Row(None, Some(30), Some(Price(1, 0)), Some(1), Some(9)),
                Row(Some(Price(105, 0)), Some(499), Some(Price(5, 0)), Some(8), Some(7)) >>),
      Expiry("soon", NaN, TRUE,
             << >>,
             << Row(Some(Price(95, 0)), Some(30), Some(Price(0, 50000)), Some(6), Some(4)),
                Row(Some(Price(105, 0)), Some(0), Some(Price(5, 0)), Some(2), Some(3)),
                Row(Some(Price(100, 0)), Some(0 - 10), Some(Price(2, 0)), Some(2), Some(2)) >>),
      Expiry("2025-11-04", Num(50), TRUE,
             << Row(Some(0 - Price(1, 0)), Some(30), Some(Price(1, 0)), Some(1), Some(1)) >>,
             << Row(Some(Price(5, 0)), Some(1), Some(Price(1, 0)), Some(1), Some(1)) >>),
      Expiry("2025-11-21", Num(1700), FALSE, << >>, << >>),
      Expiry("2025-12-19", Num(3000), TRUE,
             << Row(Some(Price(100, 0)), Some(30), Some(Price(3, 0)), Some(5), Some(8)),
                Row(Some(0), Some(30), Some(Price(1, 0)), Some(1), Some(6)) >>,
             << Row(Some(Price(95, 0)), Some(30), Some(Price(1, 0)), Some(1), Some(2)) >>),
      Expiry("2026-03-20", Num(3000), TRUE, ManyRows, << >>) }

\* the lists tk.options can be: distinct expiries
ExpiryLists ==
    {s \in SeqsUpTo(ExpiryPool, MaxChains) :
        \A i, j \in 1..Len(s) : i # j => s[i].expiry # s[j].expiry}

Worlds ==
    {[last_price |-> p, options |-> s] : p \in {None, Some(Underlying)}, s \in ExpiryLists}

InitPipeline ==
    /\ pc = "waiting"
    /\ ticker \in {Some("AAPL"), None}
    /\ options_payload = Payload(None, None, <<>>)
    /\ cands = <<>>
    /\ locals = <<>>
    /\ result = None
    /\ raised = FALSE
    /\ EstimatorIdle
    /\ gpc = "start"
    /\ world \in Worlds
    /\ expiries \in 0..MaxExpiries
    /\ idx = 0
    /\ chain = None
    /\ out = <<>>
    /\ opt_raw = None
    /\ trace = <<>>
    /\ HttpIdle
    /\ LlmIdle

\* mutant: an empty tk.options is returned as an error
NoExpiriesIsError(t, last_price) == Dumped(t, None, <<>>, Some("No option chain"))

\* line 172
NoExpiries(t, last_price) == Dumped(t, last_price, <<>>, None)

\* lines 164-173: the last price, then tk.options
GetStart ==
    /\ gpc = "start"
    /\ IF world.last_price = None
       THEN /\ LET r == ReturnOrRaise(ErrorRecord(ticker, None, <<>>, "No underlying price"),
                                      ticker, None, <<>>)
               IN  opt_raw' = r.opt_raw /\ gpc' = r.gpc
            /\ trace' = Append(trace, Event("last_price", 0, 0, 0))
       ELSE /\ trace' = trace \o <<Event("last_price", 0, 0, 0), Event("options", 0, 0, 0)>>
            /\ IF world.options = <<>>
               THEN LET r == ReturnOrRaise(NoExpiries(ticker, world.last_price),
                                          ticker, world.last_price, <<>>)
                    IN  opt_raw' = r.opt_raw /\ gpc' = r.gpc
               ELSE /\ gpc' = "loop"
                    /\ UNCHANGED opt_raw
    /\ UNCHANGED <<world, expiries, idx, chain, out, screener, estimator, http, llm>>

\* line 165 on a ticker that is no str: whether yf.Ticker(ticker) raises at once
\* is yfinance's choice; if it does, line 246 runs and its constructor raises
TickerRejected ==
    /\ gpc = "start"
    /\ ticker = None
    /\ ErrorRecord(ticker, None, <<>>, "ticker") = None
    /\ gpc' = "raised"
    /\ UNCHANGED <<world, expiries, idx, chain, out, opt_raw, trace, screener, estimator, http, llm>>

\* the expiries the loop visits
Visited == Min(Len(world.options), ExpiryLimit(expiries))

\* lines 175-179: chain = tk.option_chain(expiry), and continue when it raises
FetchChain ==
    /\ gpc = "loop"
    /\ idx < Visited
    /\ trace' = Append(trace, Event("option_chain", idx + 1, 0, 0))
    /\ IF world.options[idx + 1].fetch_ok
       THEN /\ chain' = Some(world.options[idx + 1])
            /\ gpc' = "chain"
            /\ UNCHANGED idx
       ELSE /\ idx' = idx + 1
            /\ UNCHANGED <<chain, gpc>>
    /\ UNCHANGED <<world, expiries, out, opt_raw, screener, estimator, http, llm>>

\* lines 180-242 for the fetched chain; an exception leaves by lines 245-246
ProcessChain ==
    /\ gpc = "chain"
    /\ LET r == ProcessBothSides(Val(chain), idx + 1, Val(world.last_price),
                                 [exc |-> None, out |-> out, trace |-> trace])
       IN  /\ out' = r.out
           /\ trace' = r.trace
           /\ IF r.exc # None
              THEN /\ LET h == ErrorRecord(ticker, world.last_price, r.out, Val(r.exc))
                      IN  IF h # None
                          THEN opt_raw' = h /\ gpc' = "done"
                          ELSE opt_raw' = None /\ gpc' = "raised"
                   /\ UNCHANGED idx
              ELSE /\ gpc' = "loop"
                   /\ idx' = idx + 1
                   /\ UNCHANGED opt_raw
    /\ chain' = None
    /\ UNCHANGED <<world, expiries, screener, estimator, http, llm>>

\* line 244
ReturnOut ==
    /\ gpc = "loop"
    /\ idx >= Visited
    /\ LET r == ReturnOrRaise(Dumped(ticker, world.last_price, out, None),
                              ticker, world.last_price, out)
       IN  opt_raw' = r.opt_raw /\ gpc' = r.gpc
    /\ UNCHANGED <<world, expiries, idx, chain, out, trace, screener, estimator, http, llm>>

\* run_pipeline.py line 15: opt = analyze_options_data(ticker, opt_raw)
AnalyzeOptRaw ==
    /\ gpc = "done"
    /\ pc = "waiting"
    /\ options_payload' = Val(opt_raw)
    /\ LET r == analyze_options_data(ticker, Val(opt_raw))
       IN  /\ cands' = r.cands
           /\ locals' = r.locals
           /\ result' = r.result
           /\ raised' = r.raised
    /\ pc' = "done"
    /\ trace' = Append(trace, Event("analyze_options_data", 0, 0, 0))
    /\ UNCHANGED <<ticker, estimator, gpc, world, expiries, idx, chain, out, opt_raw, http, llm>>

NextPipeline == GetStart \/ TickerRejected \/ FetchChain \/ ProcessChain \/ ReturnOut \/ AnalyzeOptRaw

SpecPipeline == InitPipeline /\ [][NextPipeline]_vars

(***************************************************************************)
(* fetch_json (tools/utils_http.py): one call against a server whose       *)
(* answers to the successive requests are drawn beforehand                 *)
(***************************************************************************)
MaxRetries == 2

\* what one requests.get meets: exc, the call raises; otherwise a response
\* with r.ok and a body that r.json() parses or not
Outcome(exc, ok, is_json) == [exc |-> exc, ok |-> ok, is_json |-> is_json]
Outcomes ==
    { Outcome(TRUE, FALSE, FALSE), Outcome(FALSE, TRUE, TRUE),
      Outcome(FALSE, TRUE, FALSE), Outcome(FALSE, FALSE, FALSE) }

\* an error object: its type and the request it came from
Err(type, k) == [type |-> type, request |-> k]

\* the JSON value of the body of the k-th response
BodyOf(k) == [body |-> k]

\* mutant: range(retries + 1) became range(retries)
AttemptsShort(n) == n

\* line 9: range(retries + 1)
Attempts(n) == n + 1

\* line 17: time.sleep(1.5 * attempt), in half seconds
SleepFor(a) == 3 * a

InitFetchJson ==
    /\ ScreenerIdle
    /\ EstimatorIdle
    /\ FetcherIdle
    /\ LlmIdle
    /\ hpc = "loop"
    /\ retries \in (0 - 1)..MaxRetries
    /\ attempt = 0
    /\ server \in [1..(MaxRetries + 2) -> Outcomes]
    /\ sent = 0
    /\ last_err = None
    /\ slept = 0
    /\ json_out = None
    /\ err_out = None

\* lines 9-16: one pass of the try block
Request ==
    /\ hpc = "loop"
    /\ attempt < Attempts(retries)
    /\ sent' = sent + 1
    /\ LET r == server[sent + 1]
       IN  IF r.exc
           THEN /\ last_err' = Some(Err("RequestException", sent + 1))
                /\ hpc' = "sleep"
                /\ UNCHANGED json_out
           ELSE IF r.ok
                THEN IF r.is_json
                     THEN /\ json_out' = Some(BodyOf(sent + 1))
                          /\ hpc' = "returned"
                          /\ UNCHANGED last_err
                     ELSE /\ last_err' = Some(Err("JSONDecodeError", sent + 1))
                          /\ hpc' = "sleep"
                          /\ UNCHANGED json_out
                ELSE /\ last_err' = Some(Err("RuntimeError", sent + 1))
                     /\ hpc' = "sleep"
                     /\ UNCHANGED json_out
    /\ UNCHANGED <<retries, attempt, server, slept, err_out, screener, estimator, fetcher, llm>>

\* line 17, then the next value of attempt
Sleep ==
    /\ hpc = "sleep"
    /\ slept' = slept + SleepFor(attempt)
    /\ attempt' = attempt + 1
    /\ hpc' = "loop"
    /\ UNCHANGED <<retries, server, sent, last_err, json_out, err_out, screener, estimator, fetcher, llm>>

\* line 18: raise last_err; raising None is a TypeError
RaiseLastErr ==
    /\ hpc = "loop"
    /\ attempt >= Attempts(retries)
    /\ err_out' = IF last_err = None THEN Some(Err("TypeError", 0)) ELSE last_err
    /\ hpc' = "raised"
    /\ UNCHANGED <<retries, attempt, server, sent, last_err, slept, json_out, screener, estimator, fetcher, llm>>

NextFetchJson == Request \/ Sleep \/ RaiseLastErr

SpecFetchJson == InitFetchJson /\ [][NextFetchJson]_vars

(***************************************************************************)
(* summarize_insights (tools/summarize_insights.py)                        *)
(* The model's reply is a text, held as its sequence of tokens: JSON       *)
(* punctuation, string, integer and float literals (floats in tenths),     *)
(* null, whitespace, and words that are no JSON.                           *)
(***************************************************************************)
Tok(k, s, i) == [k |-> k, s |-> s, i |-> i]
Punct(s) == Tok("punct", s, 0)
StrLit(s) == Tok("str", s, 0)
IntLit(i) == Tok("int", "", i)
FloatLit(tenths) == Tok("float", "", tenths)
Null == Tok("null", "", 0)
Ws == Tok("ws", "", 0)
Word(s) == Tok("word", s, 0)
\* a key the object does not have
Missing == Tok("missing", "", 0)

IsScalar(t) == t.k \in {"str", "int", "float", "null"}

RECURSIVE StripLeft(_)
StripLeft(txt) ==
    IF txt # <<>> /\ Head(txt) = Ws THEN StripLeft(Tail(txt)) ELSE txt

RECURSIVE StripRight(_)
StripRight(txt) ==
    IF txt # <<>> /\ txt[Len(txt)] = Ws
    THEN StripRight(SubSeq(txt, 1, Len(txt) - 1)) ELSE txt

\* line 53: str.strip()
Strip(txt) == StripRight(StripLeft(txt))

NotWs(t) == t # Ws

\* the members of an object, from the token after "{" or after a ","; acc
\* holds the pairs <<key, value>> read so far; exc when the text is no JSON
RECURSIVE ParseMembers(_, _)
ParseMembers(rest, acc) ==
    IF Len(rest) < 4 \/ rest[1].k # "str" \/ rest[2] # Punct(":") \/ ~IsScalar(rest[3])
    THEN [exc |-> TRUE, members |-> <<>>]
    ELSE LET read == Append(acc, <<rest[1].s, rest[3]>>)
         IN  IF rest[4] = Punct("}")
             THEN [exc |-> Len(rest) # 4, members |-> read]
             ELSE IF rest[4] = Punct(",")
                  THEN ParseMembers(SubSeq(rest, 5, Len(rest)), read)
                  ELSE [exc |-> TRUE, members |-> <<>>]

\* json.loads on a text that is a scalar, an empty list or an object of
\* scalars, with whitespace between the tokens; exc is the JSONDecodeError
json_loads(txt) ==
    LET toks == SelectSeq(txt, NotWs)
        fail == [exc |-> TRUE, t |-> "none", members |-> <<>>]
    IN  IF toks = <<>> THEN fail
        ELSE IF Len(toks) = 1 /\ IsScalar(toks[1])
             THEN [exc |-> FALSE, t |-> "scalar", members |-> <<>>]
        ELSE IF toks = <<Punct("["), Punct("]")>>
             THEN [exc |-> FALSE, t |-> "list", members |-> <<>>]
        ELSE IF toks = <<Punct("{"), Punct("}")>>
             THEN [exc |-> FALSE, t |-> "object", members |-> <<>>]
        ELSE IF toks[1] = Punct("{")
             THEN LET m == ParseMembers(Tail(toks), <<>>)
                  IN  IF m.exc THEN fail
                      ELSE [exc |-> FALSE, t |-> "object", members |-> m.members]
        ELSE fail

\* dict lookup: the last pair of the key, as json.loads keeps it
RECURSIVE Get(_, _)
Get(members, key) ==
    IF members = <<>> THEN Missing
    ELSE IF members[Len(members)][1] = key THEN members[Len(members)][2]
    ELSE Get(SubSeq(members, 1, Len(members) - 1), key)

\* the int a numeric string converts to
IntOfStr(s) == CASE s = "70" -> Some(70) [] s = "101" -> Some(101) [] OTHER -> None

\* pydantic's conversion to int: an int, a float without a fraction, a
\* numeric string
AsInt(t) ==
    IF t.k = "int" THEN Some(t.i)
    ELSE IF t.k = "float" /\ t.i % 10 = 0 THEN Some(t.i \div 10)
    ELSE IF t.k = "str" THEN IntOfStr(t.s)
    ELSE None

Signals == {"Buy", "Sell", "Hold"}

\* mutant: the upper limit of confidence is lost
FinalSignalOutNoMax(signal, confidence, reason) ==
    IF /\ signal.k = "str" /\ signal.s \in Signals
       /\ AsInt(confidence) # None /\ Val(AsInt(confidence)) >= 0
       /\ reason.k = "str"
    THEN [exc |-> FALSE,
          value |-> Some([signal |-> signal.s, confidence |-> Val(AsInt(confidence)),
                          reason |-> <<reason.s>>])]
    ELSE [exc |-> TRUE, value |-> None]

\* FinalSignalOut(signal=..., confidence=..., reason=...).dict(): exc is the
\* ValidationError
FinalSignalOut(signal, confidence, reason) ==
    IF /\ signal.k = "str" /\ signal.s \in Signals
       /\ AsInt(confidence) # None
       /\ Val(AsInt(confidence)) >= 0 /\ Val(AsInt(confidence)) <= 100
       /\ reason.k = "str"
    THEN [exc |-> FALSE,
          value |-> Some([signal |-> signal.s, confidence |-> Val(AsInt(confidence)),
                          reason |-> <<reason.s>>])]
    ELSE [exc |-> TRUE, value |-> None]

\* line 59; txt[:300] is the whole of a reply this short
Fallback(txt) ==
    [signal |-> "Hold", confidence |-> 60, reason |-> <<"Parse fallback: ", txt>>]

\* lines 55-59
ParseOrFallback(txt) ==
    LET payload == json_loads(txt)
        made == FinalSignalOut(Get(payload.members, "signal"),
                               Get(payload.members, "confidence"),
                               Get(payload.members, "reason"))
    IN  IF payload.exc \/ payload.t # "object" \/ made.exc
        THEN Fallback(txt)
        ELSE Val(made.value)

\* the texts the model's reply is drawn from: an object of the members given
\* (Missing: no such member), plain, padded with whitespace, inside a code
\* fence, or after a word of prose
ObjectText(signal, confidence, reason) ==
    LET given == SelectSeq(<< <<"signal", signal>>, <<"confidence", confidence>>,
                              <<"reason", reason>> >>,
                           LAMBDA m : m[2] # Missing)
        Member(j) == (IF j = 1 THEN <<>> ELSE <<Punct(",")>>)
                        \o <<StrLit(given[j][1]), Punct(":"), given[j][2]>>
        body == IF Len(given) = 0 THEN <<>>
                ELSE IF Len(given) = 1 THEN Member(1)
                ELSE IF Len(given) = 2 THEN Member(1) \o Member(2)
                ELSE Member(1) \o Member(2) \o Member(3)
    IN  <<Punct("{")>> \o body \o <<Punct("}")>>

Formed(form, txt) ==
    CASE form = "plain"  -> txt
      [] form = "padded" -> <<Ws>> \o <<Head(txt), Ws>> \o Tail(txt) \o <<Ws, Ws>>
      [] form = "fenced" -> <<Word("fence json"), Ws>> \o txt \o <<Ws, Word("fence")>>
      [] form = "prose"  -> <<Word("Sure"), Ws>> \o txt

SignalTexts ==
    {StrLit("Buy"), StrLit("Sell"), StrLit("Hold"), StrLit("buy"), StrLit("Strong Buy"),
     Null, IntLit(1), Missing}
ConfidenceTexts ==
    {IntLit(0), IntLit(60), IntLit(100), IntLit(101), IntLit(0 - 1), FloatLit(700),
     FloatLit(705), StrLit("70"), StrLit("101"), StrLit("high"), Null, Missing}
ReasonTexts == {StrLit("trend up"), Null, Missing}
Forms == {"plain", "padded", "fenced", "prose"}

Replies ==
    {Formed(f, ObjectText(sg, c, r)) :
        f \in Forms, sg \in SignalTexts, c \in ConfidenceTexts, r \in ReasonTexts}
    \cup
    { <<>>, <<Ws>>, <<StrLit("Buy")>>, <<IntLit(60)>>, <<Punct("["), Punct("]")>>,
      <<Word("Hold"), Ws, Word("with"), Ws, Word("confidence"), Ws, IntLit(60)>>,
      <<Punct("{"), StrLit("signal"), Punct(":"), StrLit("Buy"), Punct(","),
        StrLit("confidence"), Punct(":"), IntLit(80), Punct(","),
        StrLit("reason"), Punct(":"), StrLit("x"), Punct(","), Punct("}")>>,
      <<Punct("{"), StrLit("signal"), Punct(":"), StrLit("Buy"), Punct(","),
        StrLit("signal"), Punct(":"), StrLit("Sell"), Punct(","),
        StrLit("confidence"), Punct(":"), IntLit(80), Punct(","),
        StrLit("reason"), Punct(":"), StrLit("x"), Punct(","),
        StrLit("horizon"), Punct(":"), StrLit("1m"), Punct("}")>>,
      <<Punct("{"), StrLit("signal"), Punct(":"), StrLit("Buy"), Punct(","),
        StrLit("confidence"), Punct(":"), IntLit(80), Punct(","),
        StrLit("reason"), Punct(":"), StrLit("x")>> }

InitSummarize ==
    /\ ScreenerIdle
    /\ EstimatorIdle
    /\ FetcherIdle
    /\ HttpIdle
    /\ spc = "start"
    /\ reply = None
    /\ final = None

\* lines 28-52: the prompt goes out and the model's reply comes back
ChatCompletion ==
    /\ spc = "start"
    /\ \E txt \in Replies : reply' = Some(txt)
    /\ spc' = "replied"
    /\ UNCHANGED <<final, screener, estimator, fetcher, http>>

\* lines 44-53 raising: no API key, the request fails, or the content is None
ChatFails ==
    /\ spc = "start"
    /\ spc' = "raised"
    /\ UNCHANGED <<reply, final, screener, estimator, fetcher, http>>

\* lines 53-59
ParseReply ==
    /\ spc = "replied"
    /\ final' = Some(ParseOrFallback(Strip(Val(reply))))
    /\ spc' = "returned"
    /\ UNCHANGED <<reply, screener, estimator, fetcher, http>>

NextSummarize == ChatCompletion \/ ChatFails \/ ParseReply

SpecSummarize == InitSummarize /\ [][NextSummarize]_vars

(***************************************************************************)
(* Claims                                                                  *)
(***************************************************************************)
Done == pc = "done"
\* the call returned a dict
Returned == Done /\ ~raised /\ result # None
Candidates == Val(result).candidates
Error == Val(result).error

\* the ticker is a str and the payload validates as OptionsDataOut
TickerIsStr == ticker # None
WellFormedContract(c) == c.strike # None
WellFormedPayload ==
    /\ options_payload.ticker # None
    /\ \A i \in 1..Len(options_payload.options) :
          WellFormedContract(options_payload.options[i])

HasPop(c) == c.pop_itm # None
\* the input contracts with a pop_itm, in payload order
Evaluated == SelectSeq(options_payload.options, HasPop)

VolumeOrZero(c) == IF c.volume = None THEN 0 ELSE Val(c.volume)

\* a may stand before b in a list sorted descending by
\* (meets_rules, pop_itm, volume or 0)
RankedBefore(a, b) ==
    /\ b.meets_rules => a.meets_rules
    /\ a.meets_rules = b.meets_rules => Val(a.pop_itm) >= Val(b.pop_itm)
    /\ (a.meets_rules = b.meets_rules /\ a.pop_itm = b.pop_itm)
          => VolumeOrZero(a) >= VolumeOrZero(b)

\* C1: in every successful result the candidate list is sorted descending by
\* (meets_rules, pop_itm, volume with null as 0): qualifying candidates come
\* first, then higher pop_itm, then higher volume.
C1_SortedDescending ==
    (Returned /\ Error = None) =>
        \A i \in 1..Len(Candidates) : \A j \in 1..Len(Candidates) :
            i < j => RankedBefore(Candidates[i], Candidates[j])

\* a successful result that holds a qualifying candidate before a non-qualifying
\* one, two of one group with different pop_itm, and two tied on pop_itm whose
\* volumes differ and that came in the other order
C1_Witness ==
    /\ Returned /\ Error = None
    /\ \E i, j \in 1..Len(Candidates) :
          i < j /\ Candidates[i].meets_rules /\ ~Candidates[j].meets_rules
    /\ \E i, j \in 1..Len(Candidates) :
          /\ i < j /\ Candidates[i].meets_rules = Candidates[j].meets_rules
          /\ Val(Candidates[i].pop_itm) > Val(Candidates[j].pop_itm)
    /\ \E i, j \in 1..Len(Candidates) :
          /\ i < j /\ Candidates[i].meets_rules = Candidates[j].meets_rules
          /\ Candidates[i].pop_itm = Candidates[j].pop_itm
          /\ VolumeOrZero(Candidates[i]) > VolumeOrZero(Candidates[j])
    /\ \E i, j \in 1..Len(cands) :
          /\ i < j /\ cands[i].meets_rules = cands[j].meets_rules
          /\ cands[i].pop_itm = cands[j].pop_itm
          /\ VolumeOrZero(cands[i]) < VolumeOrZero(cands[j])

\* C2: for a well-formed call with a non-null underlying price the candidate
\* list has exactly min(10, number of input contracts with a pop_itm) entries
\* (so at most 10, and none when no contract has a pop_itm).
C2_LengthIsMin ==
    (Done /\ TickerIsStr /\ WellFormedPayload
          /\ options_payload.underlying_price # None) =>
        /\ Returned
        /\ Len(Candidates) = Min(10, Len(Evaluated))
        /\ Len(Candidates) <= 10
        /\ (Evaluated = <<>> => Candidates = <<>>)

\* more than 10 contracts with a pop_itm went in and 10 candidates came out
C2_Witness ==
    /\ Returned /\ TickerIsStr /\ WellFormedPayload
    /\ options_payload.underlying_price # None
    /\ Len(Evaluated) > 10
    /\ Len(Candidates) = 10

\* a candidate is the image of contract c
CandidateOf(x, c) ==
    /\ x.type = c.type /\ x.strike = Val(c.strike) /\ x.pop_itm = c.pop_itm
    /\ x.volume = c.volume /\ x.openInterest = c.openInterest
    /\ x.expiry = c.expiry

StripNullPop(payload) == [payload EXCEPT !.options = SelectSeq(@, HasPop)]

\* C3: a (well-formed) contract with a null pop_itm yields no candidate and no
\* error: every candidate is the image of an input contract with a pop_itm, the
\* result is the one the payload without its null-pop_itm contracts gives, and
\* with an underlying price there is no error.
C3_NullPopSkipped ==
    (Done /\ TickerIsStr /\ WellFormedPayload) =>
        /\ Returned
        /\ \A i \in 1..Len(Candidates) :
              \E k \in 1..Len(options_payload.options) :
                  /\ HasPop(options_payload.options[k])
                  /\ CandidateOf(Candidates[i], options_payload.options[k])
        /\ LET r == analyze_options_data(ticker, StripNullPop(options_payload))
           IN  r.result = result /\ r.raised = raised
        /\ options_payload.underlying_price # None => Error = None

\* a screened payload that mixes contracts with and without a pop_itm
C3_Witness ==
    /\ Returned /\ TickerIsStr /\ WellFormedPayload
    /\ options_payload.underlying_price # None
    /\ Candidates # <<>>
    /\ \E k \in 1..Len(options_payload.options) :
          ~HasPop(options_payload.options[k])
    /\ Len(Evaluated) < Len(options_payload.options)

\* the call screened its contracts: str ticker, valid payload, underlying price
Screened ==
    Done /\ TickerIsStr /\ WellFormedPayload
         /\ options_payload.underlying_price # None
U == Val(options_payload.underlying_price)

\* 0.65, 0.33 and 500 dollars in the units of pop_itm, of a fraction and of money
AtLeastPop65(c) == Val(c.pop_itm) * 100 >= 65 * PopScale
AtLeastRatio33(frac) == frac[1] * 100 >= 33 * frac[2]
AtMost500(m) == m <= 500 * MoneyScale

\* C4: meets_rules of every candidate built is exactly pop_itm >= 0.65 and
\* credit / max_loss >= 0.33 and max_loss <= 500, on the unrounded ratio and
\* max_loss, all three bounds inclusive.
C4_MeetsRulesIsThreeThresholds ==
    Screened =>
        /\ Len(cands) = Len(Evaluated) /\ Len(locals) = Len(Evaluated)
        /\ \A i \in 1..Len(cands) :
              cands[i].meets_rules <=>
                  /\ AtLeastPop65(Evaluated[i])
                  /\ AtLeastRatio33(locals[i].ratio)
                  /\ AtMost500(locals[i].max_loss)

\* a candidate that sits on all three bounds and qualifies, next to one that
\* fails a single bound by the smallest step of the inputs
C4_Witness ==
    /\ Screened
    /\ \E i \in 1..Len(cands) :
          /\ cands[i].meets_rules
          /\ Val(Evaluated[i].pop_itm) * 100 = 65 * PopScale
          /\ locals[i].ratio[1] * 100 = 33 * locals[i].ratio[2]
          /\ locals[i].max_loss = 500 * MoneyScale
    /\ \E i \in 1..Len(cands) :
          /\ ~cands[i].meets_rules
          /\ \/ ~AtLeastPop65(Evaluated[i]) /\ AtLeastRatio33(locals[i].ratio)
                  /\ AtMost500(locals[i].max_loss)
             \/ AtLeastPop65(Evaluated[i]) /\ ~AtLeastRatio33(locals[i].ratio)
                  /\ AtMost500(locals[i].max_loss)
             \/ AtLeastPop65(Evaluated[i]) /\ AtLeastRatio33(locals[i].ratio)
                  /\ ~AtMost500(locals[i].max_loss)

\* dollars of a price difference times the multiplier 100, as money
TimesHundred(x) == (x * 100) \div (PriceScale \div MoneyScale)
HalfDollar == PriceScale \div 2

\* C5: max_loss of a call is max(strike - U, 0.5) * 100, never below 50 and 50
\* whenever strike <= U + 0.5; max_loss of a put is strike * 100 whatever U is.
C5_MaxLossFormula ==
    Screened =>
        /\ Len(locals) = Len(Evaluated)
        /\ \A i \in 1..Len(locals) :
              LET c == Evaluated[i]
                  k == Val(c.strike)
                  m == locals[i].max_loss
              IN  /\ c.type = "call" =>
                        /\ m = TimesHundred(Max(k - U, HalfDollar))
                        /\ m >= 50 * MoneyScale
                        /\ (k <= U + HalfDollar => m = 50 * MoneyScale)
                  /\ c.type = "put" => m = TimesHundred(k)

\* calls below, on and above U + 0.5 and a put were screened, under either
\* underlying price
C5_WitnessAt(u) ==
    /\ Screened /\ U = u
    /\ \E i \in 1..Len(locals) :
          Evaluated[i].type = "call" /\ Val(Evaluated[i].strike) <= U + HalfDollar
    /\ \E i \in 1..Len(locals) : Evaluated[i].type = "put"

C5_Witness == C5_WitnessAt(Underlying)

\* C6: no division by zero: the ratio is credit / max_loss when max_loss > 0
\* and 0 otherwise (puts with strike 0 or below included), and the call ends
\* without an error.
C6_NoDivisionByZero ==
    Screened =>
        /\ Returned /\ Error = None
        /\ Len(cands) = Len(Evaluated) /\ Len(locals) = Len(Evaluated)
        /\ \A i \in 1..Len(locals) :
              LET m == locals[i].max_loss
              IN  /\ m > 0 => locals[i].ratio = <<locals[i].credit, m>>
                  /\ m <= 0 => locals[i].ratio[1] = 0
                                  /\ cands[i].credit_to_max_loss = 0

\* a put with strike 0 and a put with a negative strike were screened
C6_Witness ==
    /\ Screened /\ Returned
    /\ \E i \in 1..Len(locals) : locals[i].max_loss = 0
    /\ \E i \in 1..Len(locals) : locals[i].max_loss < 0

\* C7: with a null underlying price (and a str ticker) the call returns an empty
\* candidate list and a non-null error, whatever the contracts are.
C7_NoUnderlyingIsError ==
    (Done /\ TickerIsStr /\ options_payload.underlying_price = None) =>
        /\ ~raised /\ result # None
        /\ Candidates = <<>>
        /\ Error # None

\* a payload without underlying price whose contracts would all be candidates
C7_Witness ==
    /\ Returned /\ TickerIsStr /\ WellFormedPayload
    /\ options_payload.underlying_price = None
    /\ Len(options_payload.options) >= 2
    /\ Len(Evaluated) = Len(options_payload.options)
    /\ Error = Some("No underlying price")

\* C8: the call never raises: every ticker and payload gives a result record.
C8_NeverRaises == Done => (~raised /\ result # None)

\* C9: all-or-nothing: a returned error comes with no candidates, and returned
\* candidates come with no error.
C9_AllOrNothing ==
    Returned =>
        /\ Error # None => Candidates = <<>>
        /\ Candidates # <<>> => Error = None

\* an error result for a payload whose first contract alone would have been a
\* candidate
C9_Witness ==
    /\ Returned /\ Error # None
    /\ Len(options_payload.options) >= 2
    /\ WellFormedContract(options_payload.options[1])
    /\ HasPop(options_payload.options[1])

\* the payload is valid but for at least one malformed contract
OnlyContractsMalformed ==
    /\ TickerIsStr /\ options_payload.ticker # None
    /\ options_payload.underlying_price # None
    /\ \E i \in 1..Len(options_payload.options) :
          ~WellFormedContract(options_payload.options[i])

WithoutMalformed(payload) ==
    [payload EXCEPT !.options = SelectSeq(@, WellFormedContract)]

\* C10 as claimed: a malformed contract in an otherwise valid payload is
\* skipped, the candidates of the well-formed contracts come back, no error.
C10_MalformedSkipped ==
    (Done /\ OnlyContractsMalformed) =>
        /\ Returned /\ Error = None
        /\ result = analyze_options_data(ticker,
                                         WithoutMalformed(options_payload)).result

\* C10 amended: a malformed contract in an otherwise valid payload fails the
\* whole call: it returns no candidates and a non-null error.
C10_MalformedFailsCall ==
    (Done /\ OnlyContractsMalformed) =>
        /\ Returned
        /\ Candidates = <<>>
        /\ Error # None

\* a malformed contract next to a well-formed one with a pop_itm
C10_Witness ==
    /\ Returned /\ OnlyContractsMalformed
    /\ \E i \in 1..Len(options_payload.options) :
          /\ WellFormedContract(options_payload.options[i])
          /\ HasPop(options_payload.options[i])

\* the number of entries of s equal to x, and of qualifying entries
Count(s, x) == Cardinality({i \in 1..Len(s) : s[i] = x})
Qualifying(s) == Cardinality({i \in 1..Len(s) : s[i].meets_rules})

\* a ranks strictly higher than b by meets_rules, then pop_itm, then volume
RanksAbove(a, b) ==
    \/ a.meets_rules /\ ~b.meets_rules
    \/ a.meets_rules = b.meets_rules /\ Val(a.pop_itm) > Val(b.pop_itm)
    \/ /\ a.meets_rules = b.meets_rules /\ a.pop_itm = b.pop_itm
       /\ VolumeOrZero(a) > VolumeOrZero(b)

\* C19: the cut keeps the best: every returned candidate was built, a built
\* candidate that ranks strictly above a returned one is returned (every copy
\* of it); with at most 10 qualifying candidates all of them are returned, and
\* a non-qualifying one is returned only when fewer than 10 qualify.
C19_CutKeepsBest ==
    Screened =>
        /\ Returned
        /\ \A j \in 1..Len(Candidates) :
              Count(Candidates, Candidates[j]) <= Count(cands, Candidates[j])
        /\ \A i \in 1..Len(cands) : \A j \in 1..Len(Candidates) :
              RanksAbove(cands[i], Candidates[j]) =>
                  Count(Candidates, cands[i]) = Count(cands, cands[i])
        /\ Qualifying(cands) <= 10 => Qualifying(Candidates) = Qualifying(cands)
        /\ (\E j \in 1..Len(Candidates) : ~Candidates[j].meets_rules)
              => Qualifying(cands) < 10

\* more than 10 candidates were built, one of the first 10 built is cut and a
\* later one is returned, next to qualifying and non-qualifying ones
C19_Witness ==
    /\ Screened /\ Returned
    /\ Len(cands) > 10
    /\ \E i \in 1..10 : Count(Candidates, cands[i]) < Count(cands, cands[i])
    /\ \E i \in 11..Len(cands) : Count(Candidates, cands[i]) = Count(cands, cands[i])
    /\ \E j \in 1..Len(Candidates) : Candidates[j].meets_rules
    /\ \E j \in 1..Len(Candidates) : ~Candidates[j].meets_rules

\* the three-threshold rule on the fields a candidate reports
RuleOnReported(x) ==
    /\ Val(x.pop_itm) * 100 >= 65 * PopScale
    /\ x.credit_to_max_loss * 100 >= 33 * RatioScale
    /\ x.max_loss <= 500 * MoneyScale

\* C20 as claimed: meets_rules of every returned candidate equals the rule on
\* its own rounded credit_to_max_loss and max_loss.
C20_SelfConsistent ==
    Returned =>
        \A j \in 1..Len(Candidates) :
            Candidates[j].meets_rules <=> RuleOnReported(Candidates[j])

\* C20 amended: a returned candidate with meets_rules true satisfies the rule
\* on its reported fields (the converse fails: the flag is computed before the
\* rounding).
C20_MeetsImpliesReportedRule ==
    Returned =>
        \A j \in 1..Len(Candidates) :
            Candidates[j].meets_rules => RuleOnReported(Candidates[j])

\* a result with a qualifying candidate and with one that does not qualify
\* although its reported fields pass the rule
C20_Witness ==
    /\ Returned
    /\ \E j \in 1..Len(Candidates) : Candidates[j].meets_rules
    /\ \E j \in 1..Len(Candidates) :
          ~Candidates[j].meets_rules /\ RuleOnReported(Candidates[j])

(***************************************************************************)
(* Claims on the estimator (SpecEstimator)                                 *)
(***************************************************************************)
EstimatorFunctions == {"delta_call", "delta_put", "pop_itm_call", "pop_itm_put"}

\* sigma null, sigma <= 0 or T <= 0
DegenerateArgs == args.sigma = None \/ Val(args.sigma) <= 0 \/ args.T <= 0
\* S > 0, K > 0, sigma > 0 and T > 0
ValidArgs ==
    /\ args.S > 0 /\ args.K > 0
    /\ args.sigma # None /\ Val(args.sigma) > 0
    /\ args.T > 0

\* C14: on degenerate arguments every estimator function returns null without
\* raising, and no function ever returns a NaN: what it returns is null or a
\* finite number.
C14_NullNeverNaN ==
    \A f \in EstimatorFunctions :
        ret[f] # Pending =>
            /\ DegenerateArgs => ret[f].kind = "none"
            /\ ret[f].kind # "nan"
            /\ ret[f].kind # "raise" => ret[f].kind \in {"none", "num"}

\* all four functions were called with a strike of 0 and a sigma of 0 or a T
\* of 0, and gave null
C14_Witness ==
    /\ args.K = 0 /\ args.S > 0
    /\ args.sigma = Some(0) \/ (args.sigma = Some(30) /\ args.T = 0)
    /\ \A f \in EstimatorFunctions : ret[f].kind = "none"

\* C15: for S > 0, K > 0, sigma > 0 and T > 0, delta_call - delta_put = 1.
C15_DeltaParity ==
    (ValidArgs /\ ret.delta_call # Pending /\ ret.delta_put # Pending) =>
        /\ ret.delta_call.kind = "num" /\ ret.delta_put.kind = "num"
        /\ ret.delta_call.v - ret.delta_put.v = PopScale

\* both deltas computed on valid arguments, away from 0 and 1
C15_Witness ==
    /\ ValidArgs
    /\ ret.delta_call.kind = "num" /\ ret.delta_put.kind = "num"
    /\ ret.delta_call.v > 0 /\ ret.delta_call.v < PopScale
    /\ ret.delta_put.v < 0 /\ ret.delta_put.v > 0 - PopScale

\* C16 as claimed: there are valid arguments on which pop_itm_call and
\* pop_itm_put do not sum to 1 (looked for once both were computed on valid
\* arguments, among all the arguments a run can draw).
C16_SumNotOne ==
    (ValidArgs /\ ret.pop_itm_call # Pending /\ ret.pop_itm_put # Pending) =>
        \E S \in SpotValues, K \in StrikeValues, sigma \in SigmaValues, T \in TValues :
            /\ S > 0 /\ K > 0 /\ sigma # None /\ Val(sigma) > 0 /\ T > 0
            /\ _pop_itm_call(S, K, sigma, T).v + _pop_itm_put(S, K, sigma, T).v # PopScale

\* C16 amended: on valid arguments pop_itm_call + pop_itm_put = 1.
C16_PopSumsToOne ==
    (ValidArgs /\ ret.pop_itm_call # Pending /\ ret.pop_itm_put # Pending) =>
        /\ ret.pop_itm_call.kind = "num" /\ ret.pop_itm_put.kind = "num"
        /\ ret.pop_itm_call.v + ret.pop_itm_put.v = PopScale

\* both probabilities computed on valid arguments, away from 0 and 1
C16_Witness ==
    /\ ValidArgs
    /\ ret.pop_itm_call.kind = "num" /\ ret.pop_itm_put.kind = "num"
    /\ ret.pop_itm_call.v > 0 /\ ret.pop_itm_call.v < PopScale

(***************************************************************************)
(* Claims on get_options_data and the pipeline (SpecPipeline)              *)
(***************************************************************************)
\* get_options_data has returned
Fetched == gpc = "done" /\ opt_raw # None

\* the calls of the estimator in the trace
IsEstimate(e) == e.ev \in EstimatorFunctions
IsFetch(e) == e.ev = "option_chain"

\* C11: when the underlying price is known and there is no option chain at
\* all, the screening call returns a populated error and no candidates.
C11_NoChainIsError ==
    (Done /\ world.last_price # None /\ world.options = <<>>) =>
        /\ Returned
        /\ Error # None
        /\ Candidates = <<>>

\* C11 amended: when the underlying price is known and there is no option
\* chain at all, the screening call returns no candidates and a null error.
C11_NoChainIsEmptyNoError ==
    (Done /\ world.last_price # None /\ world.options = <<>>) =>
        /\ Returned
        /\ Error = None
        /\ Candidates = <<>>
        /\ Val(result).ticker = Val(ticker)

\* the pipeline ran to its end on a ticker with a price and no expiries
C11_Witness ==
    /\ Done /\ Returned
    /\ world.last_price # None /\ world.options = <<>>
    /\ Val(opt_raw).underlying_price = world.last_price
    /\ Val(opt_raw).options = <<>>
    /\ Candidates = <<>>

\* delta and pop_itm of c are non-null only if 0 < c.iv < 5.0
NullUnlessIvInRange(c) ==
    /\ (c.delta # None \/ c.pop_itm # None) =>
           c.iv # None /\ Val(c.iv) > 0 /\ Val(c.iv) < 5 * IvScale
    /\ (c.iv = None \/ Val(c.iv) <= 0 \/ Val(c.iv) >= 5 * IvScale) =>
           c.delta = None /\ c.pop_itm = None

\* C12: every contract get_options_data emits has delta and pop_itm non-null
\* only if 0 < iv < 5.0, and both null when iv is missing, <= 0 or >= 5.0;
\* a row's iv outside the range never reaches the estimator.
C12_EstimateOnlyInIvRange ==
    /\ \A j \in 1..Len(out) : NullUnlessIvInRange(out[j])
    /\ Fetched => \A j \in 1..Len(Val(opt_raw).options) :
                      NullUnlessIvInRange(Val(opt_raw).options[j])
    /\ \A j \in 1..Len(trace) :
          IsEstimate(trace[j]) => trace[j].sigma > 0 /\ trace[j].sigma < 5 * IvScale

\* returned: a contract with an estimate, one with iv >= 5.0, one with iv
\* exactly 5.0 and one without iv, the last three without an estimate
C12_Witness ==
    /\ Fetched
    /\ LET opts == Val(opt_raw).options
       IN  /\ \E j \in 1..Len(opts) : opts[j].delta # None /\ opts[j].pop_itm # None
           /\ \E j \in 1..Len(opts) : opts[j].iv = Some(600) /\ opts[j].delta = None
           /\ \E j \in 1..Len(opts) : opts[j].iv = Some(500) /\ opts[j].pop_itm = None
           /\ \E j \in 1..Len(opts) : opts[j].iv = None /\ opts[j].delta = None

\* days_to_exp of the expiry the call e was made for
DaysOf(e) == world.options[e.expiry].days

\* C13: the T passed to the estimator is at least 1/365, and is exactly 1/365
\* for an expiry in the past, today, less than a day away or not parseable.
C13_TimeFloor ==
    \A j \in 1..Len(trace) :
        IsEstimate(trace[j]) =>
            /\ trace[j].T > 0
            /\ trace[j].T >= DaysScale
            /\ (DaysOf(trace[j]).kind # "num" \/ DaysOf(trace[j]).v < DaysScale) =>
                   trace[j].T = DaysScale

\* the estimator was called for an expiry in the past and for one that does
\* not parse
C13_Witness ==
    /\ \E j \in 1..Len(trace) :
          /\ IsEstimate(trace[j])
          /\ DaysOf(trace[j]).kind = "num" /\ DaysOf(trace[j]).v < 0
          /\ trace[j].T = DaysScale
    /\ \E j \in 1..Len(trace) :
          /\ IsEstimate(trace[j])
          /\ DaysOf(trace[j]).kind = "nan"
          /\ trace[j].T = DaysScale

\* no option-chain fetch after an estimator call
NoFetchAfterEstimate ==
    \A i, j \in 1..Len(trace) :
        (i < j /\ IsEstimate(trace[i])) => ~IsFetch(trace[j])

\* C18 as claimed: for any number of requested expiries, no option-chain
\* fetch occurs after the first estimator invocation.
C18_FetchesBeforeEstimator == NoFetchAfterEstimate

\* C18 amended: every option-chain fetch precedes the screener, every
\* estimator call works on a chain fetched before it, and when at most one
\* expiry is requested no fetch follows an estimator call.
C18_FetchBeforeUse ==
    /\ \A i, j \in 1..Len(trace) :
          (i < j /\ trace[i].ev = "analyze_options_data") =>
              ~IsFetch(trace[j]) /\ ~IsEstimate(trace[j])
    /\ \A j \in 1..Len(trace) :
          IsEstimate(trace[j]) =>
              \E i \in 1..(j - 1) :
                  IsFetch(trace[i]) /\ trace[i].expiry = trace[j].expiry
    /\ expiries <= 1 => NoFetchAfterEstimate

\* one expiry requested where two are listed: the run fetched one chain,
\* called the estimator and then the screener
C18_Witness ==
    /\ expiries <= 1
    /\ Len(world.options) = 2
    /\ Done
    /\ \E i, j \in 1..Len(trace) :
          i < j /\ IsFetch(trace[i]) /\ IsEstimate(trace[j])
    /\ trace[Len(trace)].ev = "analyze_options_data"

(***************************************************************************)
(* Claims on the screener, continued (Spec)                                *)
(***************************************************************************)
\* the last traded price of c is absent or zero
NoLast(c) == c.last = None \/ c.last = Some(0)

\* x is the candidate of c with credit 0, ratio 0 and meets_rules false
ZeroCreditCandidate(x, c) ==
    /\ CandidateOf(x, c)
    /\ x.credit = 0
    /\ x.credit_to_max_loss = 0
    /\ ~x.meets_rules

\* C21 as claimed: every contract with a pop_itm and an absent or zero last is
\* listed in the returned candidates with credit 0 and credit_to_max_loss 0
\* and meets_rules false.
C21_NoLastListed ==
    Screened =>
        /\ Returned
        /\ \A i \in 1..Len(Evaluated) :
              NoLast(Evaluated[i]) =>
                  \E j \in 1..Len(Candidates) :
                      ZeroCreditCandidate(Candidates[j], Evaluated[i])

\* C21 amended: such a contract is made a candidate with credit 0,
\* credit_to_max_loss 0 and meets_rules false; it is in the returned list
\* whenever no more than 10 contracts have a pop_itm, and no returned candidate
\* of credit 0 has meets_rules true.
C21_NoLastNeverMeets ==
    Screened =>
        /\ Returned
        /\ Len(cands) = Len(Evaluated)
        /\ \A i \in 1..Len(Evaluated) :
              NoLast(Evaluated[i]) =>
                  /\ ZeroCreditCandidate(cands[i], Evaluated[i])
                  /\ locals[i].credit = 0
                  /\ Len(Evaluated) <= TopN =>
                        \E j \in 1..Len(Candidates) : Candidates[j] = cands[i]
        /\ \A j \in 1..Len(Candidates) :
              Candidates[j].credit = 0 => ~Candidates[j].meets_rules

\* a put at strike 4 with pop_itm 0.9 and a last of zero, and a contract
\* without a last, are both returned with credit 0
C21_Witness ==
    /\ Screened /\ Returned
    /\ \E i, k \in 1..Len(Evaluated) :
          /\ Evaluated[i].last = Some(0) /\ Evaluated[i].type = "put"
          /\ AtLeastPop65(Evaluated[i])
          /\ Evaluated[k].last = None
          /\ \E j \in 1..Len(Candidates) :
                /\ ZeroCreditCandidate(Candidates[j], Evaluated[i])
                /\ Candidates[j].max_loss = 400 * MoneyScale
          /\ \E j \in 1..Len(Candidates) :
                ZeroCreditCandidate(Candidates[j], Evaluated[k])

\* 5 dollars, the strike whose notional is the 500 dollar cap
CapStrike == (500 * PriceScale) \div ContractMultiplier

\* the strike bound a qualifying candidate x obeys under the underlying price u
WithinCapStrike(x, u) ==
    IF x.type = "put"
    THEN x.strike > 0 /\ x.strike <= CapStrike
    ELSE x.strike <= u + CapStrike

\* C22: a put candidate has meets_rules true only if 0 < strike <= 5, a call
\* candidate only if strike <= U + 5, for every underlying price U.
C22_CapBoundsStrike ==
    Screened =>
        /\ \A i \in 1..Len(cands) : cands[i].meets_rules => WithinCapStrike(cands[i], U)
        /\ Returned
        /\ \A j \in 1..Len(Candidates) :
              Candidates[j].meets_rules => WithinCapStrike(Candidates[j], U)

\* returned: a qualifying put at strike 5, and a call at strike U + 10 that
\* passes the pop_itm and ratio thresholds and does not qualify
C22_Witness ==
    /\ Screened /\ Returned
    /\ \E j \in 1..Len(Candidates) :
          /\ Candidates[j].type = "put" /\ Candidates[j].strike = CapStrike
          /\ Candidates[j].meets_rules
    /\ \E j \in 1..Len(Candidates) :
          /\ Candidates[j].type = "call" /\ Candidates[j].strike = U + 2 * CapStrike
          /\ AtLeastPop65(Candidates[j])
          /\ Candidates[j].credit_to_max_loss * 100 >= 33 * RatioScale
          /\ ~Candidates[j].meets_rules

(***************************************************************************)
(* Claims on the pipeline, continued (SpecPipeline)                        *)
(***************************************************************************)
\* get_options_data returned a record with a non-null error
FetchedError == Fetched /\ Val(opt_raw).error # None

\* C23: a record get_options_data returns with a non-null error has a null
\* underlying_price and no contracts, and analyze_options_data applied to it
\* returns a non-null error and an empty candidate list.
C23_ErrorPropagates ==
    FetchedError =>
        /\ Val(opt_raw).underlying_price = None
        /\ Val(opt_raw).options = <<>>
        /\ Done =>
              /\ options_payload = Val(opt_raw)
              /\ Returned
              /\ Error # None
              /\ Candidates = <<>>

\* the estimator raised on a strike of 0 after contracts had been gathered,
\* and the screener ran on the error record
C23_Witness ==
    /\ FetchedError /\ Done /\ Returned
    /\ Val(opt_raw).error = Some("float division by zero")
    /\ Len(out) > 0
    /\ world.last_price # None
    /\ Error = Some("No underlying price")

(***************************************************************************)
(* Claims on fetch_json (SpecFetchJson)                                    *)
(***************************************************************************)
\* the k-th request got a response with an ok status
OkStatus(k) == ~server[k].exc /\ server[k].ok
\* the k-th request got a response with an ok status and a JSON body
OkJson(k) == OkStatus(k) /\ server[k].is_json

\* C24 as claimed: for retries >= 0 at most retries + 1 requests are issued,
\* the JSON of the first response with an ok status is returned and no request
\* follows that response, the call raises the error of the last attempt only
\* after retries + 1 failed attempts, and returns only on an ok response.
C24_FirstOkStatusEnds ==
    retries >= 0 =>
        /\ sent <= retries + 1
        /\ \A k \in 1..(sent - 1) : ~OkStatus(k)
        /\ hpc = "returned" => OkStatus(sent) /\ json_out = Some(BodyOf(sent))
        /\ hpc = "raised" =>
              /\ sent = retries + 1
              /\ \A k \in 1..sent : ~OkStatus(k)
              /\ err_out # None /\ Val(err_out).request = sent
        /\ json_out # None => hpc = "returned"
        /\ err_out # None => hpc = "raised"

\* C24 amended: the same, where the response that ends the call is the first
\* with an ok status and a body that parses as JSON; an ok response whose body
\* does not parse is a failed attempt, and its decoding error is the one
\* raised when it is the last.
C24_FirstOkJsonEnds ==
    retries >= 0 =>
        /\ sent <= retries + 1
        /\ \A k \in 1..(sent - 1) : ~OkJson(k)
        /\ hpc = "returned" => OkJson(sent) /\ json_out = Some(BodyOf(sent))
        /\ hpc = "raised" =>
              /\ sent = retries + 1
              /\ \A k \in 1..sent : ~OkJson(k)
              /\ err_out # None /\ Val(err_out).request = sent
              /\ Val(err_out).type =
                    IF server[sent].exc THEN "RequestException"
                    ELSE IF server[sent].ok THEN "JSONDecodeError"
                    ELSE "RuntimeError"
        /\ json_out # None => hpc = "returned"
        /\ err_out # None => hpc = "raised"

\* retries = 2: a request that raised, an HTTP error, then the third response
\* is returned, after sleeping 0 and 1.5 seconds
C24_Witness ==
    /\ retries = 2
    /\ hpc = "returned"
    /\ sent = 3
    /\ server[1].exc
    /\ ~server[2].exc /\ ~server[2].ok
    /\ json_out = Some(BodyOf(3))
    /\ slept = 3

(***************************************************************************)
(* Claims on summarize_insights (SpecSummarize)                            *)
(***************************************************************************)
\* the JSON text t names one of the three signals
NamesSignal(t) == t \in {StrLit("Buy"), StrLit("Sell"), StrLit("Hold")}

\* the JSON text t is an integer in 0..100, or one of the values the schema's
\* validation converts to such an integer (70.0 and "70")
GivesConfidence(t) ==
    \/ t.k = "int" /\ t.i >= 0 /\ t.i <= 100
    \/ t = FloatLit(700)
    \/ t = StrLit("70")

\* the replies that are no JSON text at all
BrokenReplies ==
    { <<>>, <<Ws>>,
      <<Word("Hold"), Ws, Word("with"), Ws, Word("confidence"), Ws, IntLit(60)>>,
      <<Punct("{"), StrLit("signal"), Punct(":"), StrLit("Buy"), Punct(","),
        StrLit("confidence"), Punct(":"), IntLit(80), Punct(","),
        StrLit("reason"), Punct(":"), StrLit("x"), Punct(","), Punct("}")>>,
      <<Punct("{"), StrLit("signal"), Punct(":"), StrLit("Buy"), Punct(","),
        StrLit("confidence"), Punct(":"), IntLit(80), Punct(","),
        StrLit("reason"), Punct(":"), StrLit("x")>> }

IsFallback(d) ==
    d.signal = "Hold" /\ d.confidence = 60 /\ d.reason[1] = "Parse fallback: "

\* C25: whenever summarize_insights returns, signal is one of Buy, Sell, Hold
\* and confidence is an integer in 0..100; a reply that is not valid JSON, or
\* whose signal or confidence does not satisfy the schema, gives the fallback
\* Hold with confidence 60.
C25_SignalOrFallback ==
    spc = "returned" =>
        /\ final # None
        /\ Val(final).signal \in {"Buy", "Sell", "Hold"}
        /\ Val(final).confidence \in 0..100
        /\ Val(reply) \in BrokenReplies => IsFallback(Val(final))
        /\ \A f \in Forms, sg \in SignalTexts, c \in ConfidenceTexts, r \in ReasonTexts :
              (/\ Val(reply) = Formed(f, ObjectText(sg, c, r))
               /\ f \in {"fenced", "prose"} \/ ~NamesSignal(sg) \/ ~GivesConfidence(c))
                  => IsFallback(Val(final))

\* the reply was the object with signal Buy and confidence 101, and the
\* fallback was returned
C25_Witness ==
    /\ spc = "returned"
    /\ reply = Some(ObjectText(StrLit("Buy"), IntLit(101), StrLit("trend up")))
    /\ IsFallback(Val(final))

====
